---- MODULE Spec2Model ----
(***************************************************************************)
(* Plan execution and supervision loop of agenteDOcumentos:                *)
(*   PlanExecutor   (src/plan_executor.py)                                 *)
(*   PlanSupervisor (src/plan_supervisor.py)                               *)
(* Python dicts are records; a key that a dict does not carry is a field   *)
(* the record does not have (read with Get, the model of dict.get).        *)
(* Values that are not dicts are records tagged with the field py_type.    *)
(***************************************************************************)
EXTENDS Integers, Sequences, FiniteSets, TLC

\* ---------------------------------------------------------------- bounds
\* Longest plan the caller hands to execute_plan.
MaxSteps == 3
\* Longest string among the parameter values handed to _resolve_context_vars.
MaxStrLen == 4

\* ------------------------------------------------------ program constants
\* PlanExecutor.__init__: self.max_retries = 2
max_retries == 2
\* PlanSupervisor.__init__: self.max_plan_retries = 2
max_plan_retries == 2

\* ------------------------------------------------------- Python values
\* dict.get(k, default)
Get(d, k, default) == IF k \in DOMAIN d THEN d[k] ELSE default

EmptyDict == [k \in {} |-> TRUE]
PyNone == [py_type |-> "NoneType"]
PyStr(s) == [py_type |-> "str", s |-> s]
PyInt(n) == [py_type |-> "int", n |-> n]
\* A value json.dumps cannot serialise (a set, a Path, an open file ...).
PyObject == [py_type |-> "object"]

\* isinstance(v, dict)
IsDict(v) == "py_type" \notin DOMAIN v
IsStr(v) == ~IsDict(v) /\ v.py_type = "str"
\* bool(v) for the values above (strings of the model are non-empty)
Truthy(v) == IF IsDict(v) THEN DOMAIN v # {} ELSE v.py_type # "NoneType"

\* The outcome of a call: a returned value or a raised exception.
Ok(v) == [raises |-> FALSE, value |-> v]
Raise(m) == [raises |-> TRUE, msg |-> m]

\* ------------------------------------------------------- tool registry
\* tools_registry of the executor: the registered names (TOOL_FUNCTIONS).
RegisteredTool == "list_files_in_dir"
UnknownTool == "no_such_tool"
\* The executor's own entry points are registered tools too.
ExecutePlanTool == "execute_plan"
SupervisePlanTool == "supervise_plan_execution"
tools == {RegisteredTool, ExecutePlanTool, SupervisePlanTool}

\* Error texts a tool can report, by raising or in its error entry.
Errors == {"e1", "e2"}

\* What one invocation of a registered tool can do: return a dict with
\* success true, a dict without a success key, a dict with success false
\* (with or without an error entry), a non-dict value, a non-serialisable value, or raise.
ToolValues ==
    {[success |-> TRUE], [error |-> "e1"], PyStr("text"), PyObject,
     [success |-> FALSE]}
        \cup {[success |-> FALSE, error |-> e] : e \in Errors}
ToolOutcomes == {Ok(v) : v \in ToolValues} \cup {Raise(e) : e \in Errors}

\* ------------------------------------------------------------- plans
\* A step names a registered tool, an unregistered tool or no tool at all,
\* and is critical or not.
StepKinds ==
    {[tool |-> t, critical |-> c] : t \in {RegisteredTool, UnknownTool}, c \in BOOLEAN}
        \cup {[critical |-> c] : c \in BOOLEAN}

SeqsUpTo(S, n) == UNION {[1..k -> S] : k \in 0..n}

Plan(steps) == [execution_steps |-> steps]
\* A plan that carries no execution_steps entry.
PlanWithoutSteps == [objective |-> "fix"]
\* Plans the caller hands to execute_plan.
Plans == {Plan(s) : s \in SeqsUpTo(StepKinds, MaxSteps)} \cup {PlanWithoutSteps}
\* Plans the caller hands to supervise_plan_execution: the plan without
\* steps and every plan of one step.
SupPlans == {Plan(<<>>)} \cup {Plan(<<s>>) : s \in StepKinds}

VARIABLES
    \* PlanExecutor fields
    execution_log, current_step,
    \* the execute_plan call in progress
    epc,        \* "idle" | "step" | "returned"
    eplan,      \* the plan argument
    idx,        \* enumerate(steps, 1) index of the step in progress
    tattempt,   \* _execute_step: attempt of the retry loop
    eresult,    \* the value execute_plan returned
    invoked,    \* per step, how many times its tool was invoked (observer)
    lastOutcome,\* what the latest tool invocation did (observer)
    \* the supervise_plan_execution call in progress
    spc,               \* "idle" | "executing" | "done" | "raised"
    plan,              \* the local variable plan (the plan executed next)
    attempt,           \* the loop variable of range(max_plan_retries + 1)
    execution_history, \* the local list execution_history
    sresult,           \* the value supervise_plan_execution returned
    execCalls,         \* number of executor.execute_plan calls made (observer)
    recs,              \* <<recommendation>> of every validation so far, <<>>
                       \* where it has none (observer)
    offered,           \* <<retry_plan>> of the last validation, <<>> if none (observer)
    caller_plan,       \* the plan the caller passed (observer)
    judged,            \* the arguments of the latest validate_execution call (observer)
    \* one validate_execution call on its own
    vpc, vin, vout,
    \* one _resolve_context_vars call on its own
    rpc,        \* "idle" | "call" | "returned"
    params,     \* the argument params (the step's parameters mapping)
    context,    \* the argument context
    resolved,   \* the returned mapping
    \* one Architect.generate_analysis_plan call
    apc,        \* "idle" | "returned"
    ain,        \* its arguments, the answer of the completion service, the clock
    aout,       \* what the call did: a returned plan or a raised exception
    avalidation,  \* the report of validate_plan_execution on the executed
                  \* plan, empty until it is made
    \* one DoDChecker.check_dod call
    dpc,        \* "idle" | "call" | "returned"
    din,        \* its arguments dod and execution_evidence
    dout,       \* the returned report
    \* one ContractValidator.validate_output call
    cpc,        \* "idle" | "call" | "returned"
    cin,        \* its arguments data, schema_name and custom_schema
    cout,       \* what the call did: a returned result or a raised exception
    \* the module-level executor that the tools execute_plan and
    \* supervise_plan_execution share, called again and again
    lists,      \* the list objects made so far, by identity
    log_ref,    \* self.execution_log: the identity of the list it is bound to
    shared_step,\* self.current_step
    frames,     \* the execute_plan calls in progress, outermost first: the
                \* plan, the enumerate index, the attempt of the retry loop
    reports,    \* of every call a caller made: the plan, the returned report
                \* and the content of its execution_log when it returned (observer)
    calls       \* number of calls the callers made

evars == <<execution_log, current_step, epc, eplan, idx, tattempt, eresult, invoked, lastOutcome>>
svars == <<spc, plan, attempt, execution_history, sresult, execCalls, recs, offered,
           caller_plan, judged>>
vvars == <<vpc, vin, vout>>
pvars == <<rpc, params, context, resolved>>
avars == <<apc, ain, aout, avalidation>>
dvars == <<dpc, din, dout>>
cvars == <<cpc, cin, cout>>
hvars == <<lists, log_ref, shared_step, frames, reports, calls>>
ovars == <<pvars, avars, dvars, cvars, hvars>>
vars == <<evars, svars, vvars, ovars>>

\* ---------------------------------------------------- PlanExecutor code
HasSteps(p) ==
    IF "execution_steps" \in DOMAIN p THEN Len(p.execution_steps) > 0 ELSE FALSE

\* Faulty variant: the report for a plan without steps has no counts.
NoStepsReportNoCounts ==
    [success |-> FALSE, error |-> "Plan sin pasos de ejecucion"]

\* execute_plan, lines 50-56: the report for a plan without steps
NoStepsReport ==
    [success |-> FALSE, error |-> "Plan sin pasos de ejecucion",
     steps_completed |-> 0, steps_total |-> 0]

\* Faulty variant: the percentage is cut, not rounded.
CompletionRateTruncated(successful, total) ==
    (10000 * successful) \div total

\* round(x, 2) of the percentage successful / total * 100, in hundredths
CompletionRate(successful, total) ==
    (20000 * successful + total) \div (2 * total)

Successful(log) == Cardinality({i \in 1..Len(log) : log[i].success})

\* _build_success_report
BuildSuccessReport(log, total_steps) ==
    [success |-> TRUE,
     steps_completed |-> Successful(log),
     steps_total |-> total_steps,
     execution_log |-> log,
     completion_rate |-> CompletionRate(Successful(log), total_steps)]

\* _build_failure_report
BuildFailureReport(log, cur, failed_step, total_steps) ==
    [success |-> FALSE,
     steps_completed |-> cur,
     steps_total |-> total_steps,
     failed_at_step |-> failed_step,
     execution_log |-> log]

\* Faulty variant: the flag is read under another key.
IsCriticalOtherKey(step) == Get(step, "is_critical", FALSE)

\* Faulty variant: every failed step ends the plan.
IsCriticalAlways(step) == TRUE

\* step.get("critical", False)
IsCritical(step) == Get(step, "critical", FALSE)

\* Faulty variant: the name is not looked up in the registry.
ToolMissingOnlyAbsent(step) == "tool" \notin DOMAIN step

\* _execute_step, lines 89-102: the tool lookup
ToolMissing(step) ==
    IF "tool" \in DOMAIN step THEN step.tool \notin tools ELSE TRUE

ToolLookupFailure(step, step_num) ==
    IF "tool" \notin DOMAIN step
    THEN [success |-> FALSE, step_num |-> step_num,
          error |-> "Paso sin herramienta especificada"]
    ELSE [success |-> FALSE, step_num |-> step_num,
          error |-> "Herramienta no encontrada"]

\* Faulty variant: a dict with an error entry counts as a failure.
ResultIsSuccessNoError(result) ==
    IF IsDict(result)
    THEN Get(result, "success", TRUE) /\ "error" \notin DOMAIN result
    ELSE TRUE

\* _execute_step, lines 118-147: does the returned value count as success
ResultIsSuccess(result) ==
    IF IsDict(result) THEN Get(result, "success", TRUE) ELSE TRUE

\* Faulty variant: the retry budget is one short.
MayRetryStepOneShort(att) == att < max_retries - 2

\* _execute_step, lines 129 and 150: is another attempt allowed
MayRetryStep(att) == att < max_retries - 1

\* The StepResult of a successful attempt
StepSuccess(step_num, tool_name, result, att) ==
    [success |-> TRUE, step_num |-> step_num, tool |-> tool_name,
     result |-> result, attempt |-> att + 1]

\* The StepResult once the attempts are used up
StepFailure(step_num, tool_name, error, att) ==
    [success |-> FALSE, step_num |-> step_num, tool |-> tool_name,
     error |-> error, attempts |-> att + 1]

\* The error text of a failed attempt: str(e), or the result's error entry
AttemptError(outcome) ==
    IF outcome.raises THEN outcome.msg
    ELSE Get(outcome.value, "error", "Error desconocido")

AttemptSucceeds(outcome) ==
    ~outcome.raises /\ ResultIsSuccess(outcome.value)

\* _execute_step, lines 162-167: the retry loop ran out
RetriesExhausted(step_num) ==
    [success |-> FALSE, step_num |-> step_num, error |-> "Reintentos agotados"]

\* No tool was invoked yet.
NoOutcome == [raises |-> FALSE]

\* execute_plan, lines 50-61: the call is entered with plan p
EnterExecutePlan(p) ==
    /\ eplan' = p
    /\ invoked' = [i \in 1..Len(Get(p, "execution_steps", <<>>)) |-> 0]
    /\ lastOutcome' = NoOutcome
    /\ tattempt' = 0
    /\ IF ~HasSteps(p)
       THEN /\ eresult' = NoStepsReport
            /\ epc' = "returned"
            /\ idx' = 0
            /\ UNCHANGED <<execution_log, current_step>>
       ELSE /\ execution_log' = <<>>
            /\ current_step' = 0
            /\ idx' = 1
            /\ epc' = "step"
            /\ eresult' = EmptyDict

\* execute_plan, lines 68-83: step idx produced step_result
AfterStep(step_result) ==
    LET steps == eplan.execution_steps
        log == Append(execution_log, step_result)
        cur == IF step_result.success THEN idx ELSE current_step
    IN  /\ execution_log' = log
        /\ current_step' = cur
        /\ tattempt' = 0
        /\ IF ~step_result.success /\ IsCritical(steps[idx])
           THEN /\ eresult' = BuildFailureReport(log, cur, idx, Len(steps))
                /\ epc' = "returned"
                /\ idx' = idx
           ELSE IF idx = Len(steps)
           THEN /\ eresult' = BuildSuccessReport(log, Len(steps))
                /\ epc' = "returned"
                /\ idx' = idx
           ELSE /\ idx' = idx + 1
                /\ UNCHANGED <<eresult, epc>>

\* execute_plan raises before line 50 when plan is not a dict: plan.get,
\* line 47, is an AttributeError
ExecutePlanRaises(p) == ~IsDict(p)

\* _execute_step for a step without a usable tool: no invocation
StepWithoutTool ==
    /\ epc = "step"
    /\ ToolMissing(eplan.execution_steps[idx])
    /\ AfterStep(ToolLookupFailure(eplan.execution_steps[idx], idx))
    /\ UNCHANGED <<eplan, invoked, lastOutcome, svars, vvars, ovars>>

\* _execute_step, lines 111-160: one pass of the retry loop, the tool
\* behaving as outcome
ToolAttempt(outcome) ==
    LET step == eplan.execution_steps[idx] IN
    /\ epc = "step"
    /\ ~ToolMissing(step)
    /\ invoked' = [invoked EXCEPT ![idx] = @ + 1]
    /\ lastOutcome' = outcome
    /\ UNCHANGED <<eplan, svars, vvars, ovars>>
    /\ IF AttemptSucceeds(outcome)
       THEN AfterStep(StepSuccess(idx, step.tool, outcome.value, tattempt))
       ELSE IF ~MayRetryStep(tattempt)
       THEN AfterStep(StepFailure(idx, step.tool, AttemptError(outcome), tattempt))
       ELSE IF tattempt + 1 < max_retries
       THEN \* continue: the next pass of range(self.max_retries)
            /\ tattempt' = tattempt + 1
            /\ UNCHANGED <<execution_log, current_step, epc, idx, eresult>>
       ELSE AfterStep(RetriesExhausted(idx))

\* In a supervised run the tools are drawn from fewer behaviours: success,
\* a non-serialisable value, success false, an exception.
SupToolOutcomes ==
    {Ok([success |-> TRUE]), Ok(PyObject),
     Ok([success |-> FALSE, error |-> "e1"]), Raise("e2")}
ToolBehaviours == IF spc = "idle" THEN ToolOutcomes ELSE SupToolOutcomes
ToolInvoke == \E outcome \in ToolBehaviours : ToolAttempt(outcome)

\* The caller calls executor.execute_plan(p) on a fresh executor
CallExecutePlan ==
    /\ epc = "idle"
    /\ spc = "idle"
    /\ \E p \in Plans : EnterExecutePlan(p)
    /\ UNCHANGED <<svars, vvars, ovars>>

\* --------------------------------------------------- PlanSupervisor code
\* What the completion service can answer to validate_execution.
JudgeErrors == {"timeout"}
RetryPlan ==
    [objective |-> "fix",
     execution_steps |-> <<[tool |-> RegisteredTool, critical |-> FALSE]>>]
\* An optional entry is <<>> (key absent) or <<value>>.
Entry(k, o) == IF o = <<>> THEN EmptyDict ELSE k :> o[1]

JudgePassed == {<<>>, <<TRUE>>, <<FALSE>>}
JudgeRecommendations ==
    {<<>>, <<PyInt(1)>>} \cup
    {<<PyStr(r)>> : r \in {"approve", "retry", "escalate", "maybe"}}
\* retry_plan: absent, an empty object, a plan, a plan without steps, a string
JudgeRetryPlans ==
    {<<>>, <<EmptyDict>>, <<RetryPlan>>, <<[objective |-> "fix"]>>,
     <<PyStr("see above")>>}
JudgeIssues == {<<>>, <<<<"i1", "i2">>>>}
JudgeReasonings == {<<>>, <<<<"r1">>>>}

JudgeDicts ==
    {Entry("validation_passed", vp) @@ Entry("recommendation", rc)
        @@ Entry("retry_plan", rp) @@ Entry("issues_found", is)
        @@ Entry("reasoning", rs) :
     vp \in JudgePassed, rc \in JudgeRecommendations, rp \in JudgeRetryPlans,
     is \in JudgeIssues, rs \in JudgeReasonings}

\* The content of a response: JSON text of a dict, of a list, or no JSON.
JsonList == [py_type |-> "list"]
JudgeContents ==
    {[json |-> FALSE]} \cup {[json |-> TRUE, value |-> v] : v \in JudgeDicts \cup {JsonList}}
JudgeResponses ==
    {Raise(e) : e \in JudgeErrors} \cup {Ok(c) : c \in JudgeContents}

\* json.loads(response.choices[0].message.content)
JsonLoads(content) ==
    IF content.json THEN Ok(content.value) ELSE Raise("Expecting value")

\* json.dumps(execution_result) of _build_validation_prompt raises a
\* TypeError on a value that is not JSON serialisable
StepSerializable(sr) ==
    IF "result" \in DOMAIN sr THEN sr.result # PyObject ELSE TRUE
JsonSerializable(er) ==
    LET log == Get(er, "execution_log", <<>>)
    IN  \A i \in 1..Len(log) : StepSerializable(log[i])

\* Faulty variant: the except branch asks for another attempt.
ErrorValidationRetry(msg) ==
    [validation_passed |-> FALSE,
     error |-> msg,
     recommendation |-> PyStr("retry"),
     reasoning |-> <<"Error al validar: ", msg>>]

\* validate_execution, lines 92-98: the except branch
ErrorValidation(msg) ==
    [validation_passed |-> FALSE,
     error |-> msg,
     recommendation |-> PyStr("escalate"),
     reasoning |-> <<"Error al validar: ", msg>>]

\* validate_execution, lines 76-90: the body of the try after the call
ParsedValidation(result) ==
    IF ~IsDict(result)
    THEN ErrorValidation("object has no attribute 'get'")
    ELSE IF ~IsStr(Get(result, "recommendation", PyStr("escalate")))
    THEN ErrorValidation("object has no attribute 'upper'")
    ELSE result

\* validate_execution(original_plan, execution_result, context), the
\* completion service answering resp
validate_execution(original_plan, execution_result, resp) ==
    IF ~JsonSerializable(execution_result)
    THEN Raise("Object is not JSON serializable")
    ELSE IF resp.raises
    THEN Ok(ErrorValidation(resp.msg))
    ELSE LET parsed == JsonLoads(resp.value)
         IN  IF parsed.raises
             THEN Ok(ErrorValidation(parsed.msg))
             ELSE Ok(ParsedValidation(parsed.value))

\* f"{x:.1f}" of a percentage held in hundredths: the value in tenths
Format1f(hundredths) == (hundredths + 5) \div 10

\* Faulty variant: the statistics are taken from the validation, which has none.
GenerateFailureMessageNoStats(validation, execution) ==
    LET issues == Get(validation, "issues_found", <<>>)
        reasoning == Get(validation, "reasoning", <<>>)
    IN  [header |-> "No se pudo completar el plan solicitado.",
         problems |-> IF issues # <<>> THEN issues
                      ELSE <<"No se especificaron problemas concretos">>,
         completed |-> Get(validation, "steps_completed", 0),
         total |-> Get(validation, "steps_total", 0),
         rate |-> Format1f(Get(validation, "completion_rate", 0)),
         analysis |-> reasoning]

\* _generate_failure_message(validation, execution)
GenerateFailureMessage(validation, execution) ==
    LET issues == Get(validation, "issues_found", <<>>)
        reasoning == Get(validation, "reasoning", <<>>)
    IN  [header |-> "No se pudo completar el plan solicitado.",
         problems |-> IF issues # <<>> THEN issues
                      ELSE <<"No se especificaron problemas concretos">>,
         completed |-> Get(execution, "steps_completed", 0),
         total |-> Get(execution, "steps_total", 0),
         rate |-> Format1f(Get(execution, "completion_rate", 0)),
         analysis |-> reasoning]

ApprovedMessage == [header |-> "Plan ejecutado y validado exitosamente"]

\* supervise_plan_execution, lines 234-240 and 254-260: the returned value
SupervisionResult(final_success, att, history, validation, message) ==
    [final_success |-> final_success,
     attempts |-> att + 1,
     execution_history |-> history,
     validation_result |-> validation,
     user_message |-> message]

\* supervise_plan_execution, lines 263-268: the value returned after the loop
LoopExhaustedResult(history) ==
    [final_success |-> FALSE,
     attempts |-> max_plan_retries + 1,
     execution_history |-> history,
     user_message |-> [header |-> "Reintentos agotados sin exito"]]

\* Faulty variant: the last retry is not granted.
DecideOneShort(recommendation, att) ==
    IF recommendation = PyStr("approve") THEN "approve"
    ELSE IF recommendation = PyStr("retry") /\ att < max_plan_retries - 1 THEN "retry"
    ELSE "escalate"

\* Faulty variant: approval is looked for under another word.
DecideOtherWord(recommendation, att) ==
    IF recommendation = PyStr("approved") THEN "approve"
    ELSE IF recommendation = PyStr("retry") /\ att < max_plan_retries THEN "retry"
    ELSE "escalate"

\* Faulty variant: a retry is granted whatever the attempt.
DecideUnbounded(recommendation, att) ==
    IF recommendation = PyStr("approve") THEN "approve"
    ELSE IF recommendation = PyStr("retry") THEN "retry"
    ELSE "escalate"

\* supervise_plan_execution, lines 233-260: the branch taken
Decide(recommendation, att) ==
    IF recommendation = PyStr("approve") THEN "approve"
    ELSE IF recommendation = PyStr("retry") /\ att < max_plan_retries THEN "retry"
    ELSE "escalate"

\* Faulty variant: the retry plan is never taken.
NextPlanSame(p, validation) == p

\* supervise_plan_execution, lines 246-250: the plan of the next attempt
NextPlan(p, validation) ==
    IF Truthy(Get(validation, "retry_plan", PyNone))
    THEN validation.retry_plan
    ELSE p

\* supervise_plan_execution, line 225: executor.execute_plan(p, context)
SupervisorExecutes(p) ==
    /\ execCalls' = execCalls + 1
    /\ IF ExecutePlanRaises(p)
       THEN /\ spc' = "raised"
            /\ eplan' = p
            /\ epc' = "raised"
            /\ UNCHANGED <<execution_log, current_step, idx, tattempt, eresult,
                           invoked, lastOutcome>>
       ELSE /\ spc' = "executing"
            /\ EnterExecutePlan(p)

\* The caller calls supervise_plan_execution(p, executor): lines 219-225
SuperviseCall ==
    /\ spc = "idle"
    /\ epc = "idle"
    /\ \E p \in SupPlans :
        /\ plan' = p
        /\ caller_plan' = p
        /\ SupervisorExecutes(p)
    /\ attempt' = 0
    /\ execution_history' = <<>>
    /\ UNCHANGED <<sresult, recs, offered, judged, vvars, ovars>>

\* supervise_plan_execution, lines 226-260, and line 225 of the next pass:
\* execute_plan returned; validate, then return or execute again
SuperviseStep(resp) ==
    LET history == Append(execution_history, eresult)
        v == validate_execution(plan, eresult, resp)
    IN
    /\ execution_history' = history
    /\ judged' = [original_plan |-> plan, execution_result |-> eresult]
    /\ UNCHANGED <<caller_plan, vvars, ovars>>
    /\ IF v.raises
       THEN /\ spc' = "raised"
            /\ UNCHANGED <<plan, attempt, sresult, execCalls, recs, offered, evars>>
       ELSE
         LET validation == v.value
             recommendation == Get(validation, "recommendation", PyStr("escalate"))
             branch == Decide(recommendation, attempt)
         IN
         /\ recs' = Append(recs, IF "recommendation" \in DOMAIN validation
                                  THEN <<validation.recommendation>> ELSE <<>>)
         /\ offered' = IF "retry_plan" \in DOMAIN validation
                       THEN <<validation.retry_plan>> ELSE <<>>
         /\ IF branch = "approve"
            THEN /\ sresult' = SupervisionResult(TRUE, attempt, history,
                                                  validation, ApprovedMessage)
                 /\ spc' = "done"
                 /\ UNCHANGED <<plan, attempt, execCalls, evars>>
            ELSE IF branch = "escalate"
            THEN /\ sresult' = SupervisionResult(FALSE, attempt, history, validation,
                                    GenerateFailureMessage(validation, eresult))
                 /\ spc' = "done"
                 /\ UNCHANGED <<plan, attempt, execCalls, evars>>
            ELSE IF attempt + 1 < max_plan_retries + 1
            THEN /\ plan' = NextPlan(plan, validation)
                 /\ attempt' = attempt + 1
                 /\ SupervisorExecutes(NextPlan(plan, validation))
                 /\ UNCHANGED sresult
            ELSE \* lines 262-268: the loop ran out
                 /\ sresult' = LoopExhaustedResult(history)
                 /\ spc' = "done"
                 /\ plan' = NextPlan(plan, validation)
                 /\ UNCHANGED <<attempt, execCalls, evars>>

\* The completion service is called only once the prompt is built.
NoResponse == Raise("not called")

SuperviseValidate ==
    /\ spc = "executing"
    /\ epc = "returned"
    /\ \E resp \in (IF JsonSerializable(eresult) THEN JudgeResponses ELSE {NoResponse}) :
        SuperviseStep(resp)

\* ------------------------------------------- validate_execution alone
ValidateInputs ==
    [execution_result : {NoStepsReport,
                         BuildSuccessReport(<<StepSuccess(1, RegisteredTool, PyObject, 0)>>, 1)},
     resp : JudgeResponses]

ValidateCall ==
    /\ vpc = "call"
    /\ vout' = validate_execution(EmptyDict, vin.execution_result, vin.resp)
    /\ vpc' = "returned"
    /\ UNCHANGED <<vin, evars, svars, ovars>>

\* ------------------------------------------- _resolve_context_vars alone
\* A string is the sequence of its characters.
Chars == {"$", "{", "}", "a"}
Strings == SeqsUpTo(Chars, MaxStrLen)

\* Parameter values: every string, a number, None.
ParamValues == {PyStr(s) : s \in Strings} \cup {PyInt(1), PyNone}
\* Values of the parameter mappings of two keys.
PairValues == {PyStr(<<"$", "{", "a", "}">>), PyStr(<<"a">>), PyInt(1)}
\* params: no parameter, one parameter of any value, two parameters.
ParamDicts ==
    {EmptyDict} \cup {"dir" :> v : v \in ParamValues}
        \cup {("dir" :> v) @@ ("depth" :> w) : v \in PairValues, w \in PairValues}

\* context: a mapping from some names to values.
ContextNames == {<<>>, <<"a">>, <<"a", "}">>}
ContextValues == {PyInt(7), PyStr(<<"$", "{", "a", "}">>)}
Contexts == UNION {[names -> ContextValues] : names \in SUBSET ContextNames}

\* str.startswith, str.endswith, and the slice value[2:-1]
StartsWith(str, prefix) ==
    Len(str) >= Len(prefix) /\ SubSeq(str, 1, Len(prefix)) = prefix
EndsWith(str, suffix) ==
    Len(str) >= Len(suffix) /\ SubSeq(str, Len(str) - Len(suffix) + 1, Len(str)) = suffix
SliceTwoToLast(str) == SubSeq(str, 3, Len(str) - 1)

\* Faulty variant: the closing brace is not asked for.
IsPlaceholderPrefixOnly(value) ==
    IF IsStr(value) THEN StartsWith(value.s, <<"$", "{">>) ELSE FALSE

\* _resolve_context_vars, line 175: the test on a parameter value
IsPlaceholder(value) ==
    IF IsStr(value)
    THEN StartsWith(value.s, <<"$", "{">>) /\ EndsWith(value.s, <<"}">>)
    ELSE FALSE

\* _resolve_context_vars, lines 175-179: the value stored under a key
ResolveValue(value, ctx) ==
    IF IsPlaceholder(value)
    THEN Get(ctx, SliceTwoToLast(value.s), value)
    ELSE value

\* _resolve_context_vars(params, context): a new mapping
ResolveContextVars(ps, ctx) == [key \in DOMAIN ps |-> ResolveValue(ps[key], ctx)]

ResolveCall ==
    /\ rpc = "call"
    /\ resolved' = ResolveContextVars(params, context)
    /\ rpc' = "returned"
    /\ UNCHANGED <<params, context, evars, svars, vvars, avars, dvars, cvars, hvars>>

\* ------------------------------------------------------- Architect code
\* Architect.__init__: self.model = ANALYZER_MODEL
ANALYZER_MODEL == "gpt-4o"

\* Arguments of generate_analysis_plan, and the clock datetime.now() reads.
RepositoryPaths == {"repoA", "repoB"}
UserRequirements == {"req1", "req2"}
Scopes == {"full", "quick"}
Clock == {1, 2}

\* Plans the completion service can answer with: a plan whose step has a
\* number, a title and a tool; a plan whose step has a tool only; an empty
\* object; a plan with a high risk, with and without a mitigation; a plan
\* whose spec_pack is a list.
ArchitectPlans ==
    {[spec_pack |-> [objectives |-> <<"o1">>],
      execution_steps |-> <<[step_number |-> 1, title |-> "Explorar",
                             tool |-> RegisteredTool]>>,
      dod |-> [acceptance_criteria |-> <<"c1">>]],
     [execution_steps |-> <<[tool |-> RegisteredTool]>>],
     EmptyDict,
     [risk_analysis |-> [risks |-> <<[impact |-> "high", risk |-> "r1"]>>]],
     [risk_analysis |->
        [risks |-> <<[impact |-> "high", risk |-> "r1", mitigation |-> "m1"]>>]],
     [spec_pack |-> JsonList]}
ArchitectContents ==
    {[json |-> FALSE]} \cup
    {[json |-> TRUE, value |-> v] : v \in ArchitectPlans \cup {JsonList}}
ArchitectResponses ==
    {Raise(e) : e \in JudgeErrors} \cup {Ok(c) : c \in ArchitectContents}

Min(a, b) == IF a < b THEN a ELSE b
IsHighRisk(risk) == Get(risk, "impact", "") = "high"

\* _print_plan_summary(plan): does it raise (a subscript of a missing key,
\* .get on a value that is not a dict)
PrintPlanSummaryRaises(p) ==
    \/ IF "spec_pack" \in DOMAIN p THEN ~IsDict(p.spec_pack) ELSE FALSE
    \/ IF "execution_steps" \in DOMAIN p
       THEN \E i \in 1..Min(3, Len(p.execution_steps)) :
               ~({"step_number", "title"} \subseteq DOMAIN p.execution_steps[i])
       ELSE FALSE
    \/ IF "dod" \in DOMAIN p THEN ~IsDict(p.dod) ELSE FALSE
    \/ IF "risk_analysis" \in DOMAIN p
       THEN IF ~IsDict(p.risk_analysis) THEN TRUE
            ELSE LET high == SelectSeq(Get(p.risk_analysis, "risks", <<>>), IsHighRisk)
                 IN  \E i \in 1..Min(2, Len(high)) :
                        ~({"risk", "mitigation"} \subseteq DOMAIN high[i])
       ELSE FALSE

\* _get_fallback_plan: the two fixed steps
FallbackSteps ==
    <<[step_number |-> 1,
       title |-> "Explorar estructura completa",
       description |-> "Mapear todos los directorios y archivos",
       estimated_files |-> "?",
       estimated_time |-> "2-5 min",
       dependencies |-> <<>>,
       outputs |-> <<"structure_map.json">>],
      [step_number |-> 2,
       title |-> "Analizar archivos principales",
       description |-> "Analizar archivos de entrada y configuracion",
       estimated_files |-> "5-10",
       estimated_time |-> "3-7 min",
       dependencies |-> <<1>>,
       outputs |-> <<"main_files_analysis.json">>]>>

\* _get_fallback_plan(repository_path, user_requirements), the clock at now
GetFallbackPlan(repository_path, user_requirements, now) ==
    [spec_pack |->
        [prd |-> <<"Analisis de ", repository_path, ": ", user_requirements>>,
         objectives |-> <<"Explorar estructura del repositorio",
                          "Identificar archivos principales",
                          "Analizar dependencias criticas">>,
         assumptions |-> <<"Repositorio valido", "Permisos de lectura">>,
         scope |-> [included |-> <<"Todos los archivos de codigo", "Configuracion">>,
                    excluded |-> <<"Binarios", "node_modules", ".git">>]],
     execution_steps |-> FallbackSteps,
     dod |->
        [acceptance_criteria |-> <<"Todos los archivos relevantes explorados",
                                   "Estructura documentada en RAG",
                                   "Dependencias identificadas">>,
         checklist |-> <<"Exploracion completa", "Analisis guardado",
                         "Reporte generado">>,
         metrics |-> [completeness |-> "100%", coverage |-> "all_code_files"]],
     metadata |->
        [generated_at |-> now,
         repository_path |-> repository_path,
         scope |-> "fallback",
         architect_model |-> "fallback"]]

\* generate_analysis_plan, lines 65-70: plan["metadata"] = {...}
WithMetadata(p, repository_path, scope, now) ==
    ("metadata" :> [generated_at |-> now,
                    repository_path |-> repository_path,
                    scope |-> scope,
                    architect_model |-> ANALYZER_MODEL]) @@ p

\* Faulty variant: the exception is passed on to the caller.
ArchitectExceptReraise(repository_path, user_requirements, now) ==
    Raise("Error generando plan")

\* generate_analysis_plan, lines 75-77: the except branch
ArchitectExcept(repository_path, user_requirements, now) ==
    Ok(GetFallbackPlan(repository_path, user_requirements, now))

\* generate_analysis_plan(repository_path, user_requirements, scope), the
\* completion service answering resp and the clock at now
generate_analysis_plan(repository_path, user_requirements, scope, resp, now) ==
    IF resp.raises
    THEN ArchitectExcept(repository_path, user_requirements, now)
    ELSE LET parsed == JsonLoads(resp.value)
         IN  IF parsed.raises
             THEN ArchitectExcept(repository_path, user_requirements, now)
             ELSE IF ~IsDict(parsed.value)
             THEN \* plan["metadata"] = ... on a list: TypeError
                  ArchitectExcept(repository_path, user_requirements, now)
             ELSE IF PrintPlanSummaryRaises(
                        WithMetadata(parsed.value, repository_path, scope, now))
             THEN ArchitectExcept(repository_path, user_requirements, now)
             ELSE Ok(WithMetadata(parsed.value, repository_path, scope, now))

\* The caller calls generate_analysis_plan
ArchitectCall ==
    /\ apc = "idle"
    /\ epc = "idle"
    /\ \E rp \in RepositoryPaths, ur \in UserRequirements, sc \in Scopes,
          resp \in ArchitectResponses, now \in Clock :
        /\ ain' = [repository_path |-> rp, user_requirements |-> ur,
                   scope |-> sc, resp |-> resp, now |-> now]
        /\ aout' = generate_analysis_plan(rp, ur, sc, resp, now)
        /\ apc' = IF generate_analysis_plan(rp, ur, sc, resp, now).raises
                  THEN "raised" ELSE "returned"
    /\ UNCHANGED <<avalidation, evars, svars, vvars, pvars, dvars, cvars, hvars>>

\* The caller hands the plan it got to execute_plan
ExecuteArchitectPlan ==
    /\ apc = "returned"
    /\ epc = "idle"
    /\ EnterExecutePlan(aout.value)
    /\ UNCHANGED <<svars, vvars, ovars>>

\* validate_plan_execution(plan, execution_results)
validate_plan_execution(p, execution_results) ==
    LET dod == Get(p, "dod", EmptyDict)
        checklist == Get(dod, "checklist", <<>>)
        criteria == Get(dod, "acceptance_criteria", <<>>)
        expected_steps == Len(Get(p, "execution_steps", <<>>))
        incomplete == Len(execution_results) < expected_steps
    IN  [plan_followed |-> ~incomplete,
         dod_satisfied |-> TRUE,
         gaps |-> IF incomplete
                  THEN <<[completed |-> Len(execution_results),
                          expected |-> expected_steps]>>
                  ELSE <<>>,
         completed_steps |-> Len(execution_results),
         total_steps |-> expected_steps,
         checklist_status |-> [i \in {checklist[n] : n \in 1..Len(checklist)} |-> "pending"],
         criteria_status |-> [c \in {criteria[n] : n \in 1..Len(criteria)} |-> "pending"]]

\* The caller hands the plan and the executor's log to the Architect
ValidatePlanExecution ==
    /\ apc = "returned"
    /\ epc = "returned"
    /\ DOMAIN avalidation = {}
    /\ avalidation' = validate_plan_execution(aout.value, execution_log)
    /\ UNCHANGED <<apc, ain, aout, evars, svars, vvars, pvars, dvars, cvars, hvars>>

\* ------------------------------------------------------ DoDChecker code
\* Longest checklist and longest list of acceptance criteria of a DoD.
MaxItems == 2

\* Checklist items and acceptance criteria, and for each text the keywords
\* of the heuristics that its lower-case form contains.
ChecklistItems ==
    {"Exploracion completa", "Analisis guardado", "Tests pasan", "Revisado por pares"}
CriteriaItems ==
    {"Todos los archivos explorados", "Dependencias identificadas", "Sin regresiones"}
KeywordsOf(text) ==
    IF text = "Exploracion completa" THEN {"exploracion completa"}
    ELSE IF text = "Analisis guardado" THEN {"analisis guardado"}
    ELSE IF text = "Tests pasan" THEN {"test"}
    ELSE IF text = "Todos los archivos explorados" THEN {"todos los archivos"}
    ELSE IF text = "Dependencias identificadas" THEN {"dependencias identificadas"}
    ELSE IF text = "saved" THEN {"saved"}
    ELSE {}
\* keyword in text.lower()
Mentions(keyword, text) == keyword \in KeywordsOf(text)

\* dod["metrics"]: name -> target, in insertion order
MetricsDicts ==
    {<<>>, <<<<"coverage", "all_files">>>>,
     <<<<"completeness", "100%">>, <<"coverage", "all_files">>>>}
\* A DoD with its three entries, and one without any.
DoDs ==
    {[checklist |-> cl, acceptance_criteria |-> ac, metrics |-> ms] :
        cl \in SeqsUpTo(ChecklistItems, MaxItems),
        ac \in SeqsUpTo(CriteriaItems, MaxItems),
        ms \in MetricsDicts}
        \cup {EmptyDict}

\* execution_evidence: nothing; an exploration with files; an exploration
\* without files and failed tests; saved results, passed tests and the
\* metrics reached; metrics that miss a target.
Evidences ==
    {EmptyDict,
     [files |-> <<"f1">>, stats |-> [total_files |-> 1]],
     [files |-> <<>>, stats |-> [total_files |-> 0], tests_passed |-> FALSE],
     [saved |-> TRUE, tests_passed |-> TRUE, dependencies |-> <<"d1">>,
      metrics |-> [completeness |-> "100%", coverage |-> "all_files"]],
     [metrics |-> [coverage |-> "some_files"]]}

\* The status texts, as sequences of characters.
DoneText == <<"+", " ", "D", "o", "n", "e">>
PendingText == <<"~", " ", "P", "e", "n", "d", "i", "n", "g">>
MetText == <<"+", " ", "M", "e", "t">>
NotMetText == <<"x", " ", "N", "o", "t", " ", "M", "e", "t">>
\* sub in str
Contains(sub, str) ==
    \E i \in 0..(Len(str) - Len(sub)) : SubSeq(str, i + 1, i + Len(sub)) = sub

\* "word" in json.dumps(evidence).lower(), for evidence whose values carry
\* no text of their own: the word is in one of the keys
InEvidenceText(word, evidence) == \E k \in DOMAIN evidence : Mentions(word, k)

\* _check_checklist_item(item, evidence)
CheckChecklistItem(item, evidence) ==
    IF Mentions("exploracion completa", item) \/ Mentions("exploration", item)
    THEN "files" \in DOMAIN evidence /\ "stats" \in DOMAIN evidence
    ELSE IF Mentions("analisis guardado", item) \/ Mentions("saved", item)
    THEN InEvidenceText("saved", evidence) \/ InEvidenceText("stored", evidence)
    ELSE IF Mentions("reporte generado", item) \/ Mentions("report", item)
    THEN InEvidenceText("report", evidence) \/ InEvidenceText("summary", evidence)
    ELSE IF Mentions("compila", item) \/ Mentions("build", item)
    THEN Get(evidence, "build_status", "") = "success"
    ELSE IF Mentions("test", item)
    THEN Get(evidence, "tests_passed", FALSE)
    ELSE FALSE

\* _check_acceptance_criterion(criterion, evidence)
CheckAcceptanceCriterion(criterion, evidence) ==
    IF Mentions("todos los archivos", criterion) \/ Mentions("all files", criterion)
    THEN Get(Get(evidence, "stats", EmptyDict), "total_files", 0) > 0
    ELSE IF Mentions("estructura documentada", criterion)
            \/ Mentions("structure documented", criterion)
    THEN "documentation" \in DOMAIN evidence \/ "summary" \in DOMAIN evidence
    ELSE IF Mentions("dependencias identificadas", criterion)
            \/ Mentions("dependencies", criterion)
    THEN "dependencies" \in DOMAIN evidence \/ "imports" \in DOMAIN evidence
    ELSE FALSE

\* check_dod, lines 244-250: the status of one metric; actual is <<>> for
\* None and <<value>> otherwise (the values of the model are non-empty)
MetricStatus(target, evidence) ==
    LET reached == Get(evidence, "metrics", EmptyDict)
        name == target[1]
        actual == IF name \in DOMAIN reached THEN <<reached[name]>> ELSE <<>>
    IN  [target |-> target[2],
         actual |-> actual,
         met |-> IF actual # <<>> THEN actual[1] = target[2] ELSE FALSE]

Range(q) == {q[i] : i \in 1..Len(q)}
\* The gaps a loop appends, in the order of the list it walks: one for
\* each item that is not among the satisfied ones.
RECURSIVE GapsOf(_, _, _)
GapsOf(label, items, satisfied) ==
    IF items = <<>> THEN <<>>
    ELSE (IF items[1] \in satisfied THEN <<>> ELSE <<<<label, items[1]>>>>)
            \o GapsOf(label, Tail(items), satisfied)

\* Faulty variant: the metrics are left out of the total.
TotalItemsNoMetrics(checklist, criteria, metrics) == Len(checklist) + Len(criteria)

\* check_dod, line 255: total_items
TotalItems(checklist, criteria, metrics) ==
    Len(checklist) + Len(criteria) + Len(metrics)

\* check_dod, lines 257-263: done_items, counted over the three status dicts
DoneItems(checklist_status, criteria_status, metrics_status) ==
    Cardinality({i \in DOMAIN checklist_status : Contains(<<"D", "o", "n", "e">>, checklist_status[i])})
    + Cardinality({c \in DOMAIN criteria_status : Contains(<<"M", "e", "t">>, criteria_status[c])})
    + Cardinality({m \in DOMAIN metrics_status : metrics_status[m].met})

\* check_dod(dod, execution_evidence); score is held in hundredths of a
\* percent (cut to an integer), the timestamp is left out
check_dod(dod, evidence) ==
    LET checklist == Get(dod, "checklist", <<>>)
        criteria == Get(dod, "acceptance_criteria", <<>>)
        metrics == Get(dod, "metrics", <<>>)
        checklist_status ==
            [item \in Range(checklist) |->
                IF CheckChecklistItem(item, evidence) THEN DoneText ELSE PendingText]
        criteria_status ==
            [criterion \in Range(criteria) |->
                IF CheckAcceptanceCriterion(criterion, evidence)
                THEN MetText ELSE NotMetText]
        metrics_status ==
            [name \in {metrics[i][1] : i \in 1..Len(metrics)} |->
                MetricStatus(CHOOSE t \in Range(metrics) : t[1] = name, evidence)]
        total_items == TotalItems(checklist, criteria, metrics)
    IN  [dod_satisfied |->
            /\ \A i \in 1..Len(checklist) : CheckChecklistItem(checklist[i], evidence)
            /\ \A i \in 1..Len(criteria) : CheckAcceptanceCriterion(criteria[i], evidence),
         checklist_status |-> checklist_status,
         criteria_status |-> criteria_status,
         metrics_status |-> metrics_status,
         gaps |-> GapsOf("Checklist", checklist,
                         {i \in Range(checklist) : CheckChecklistItem(i, evidence)})
                    \o GapsOf("Criterio", criteria,
                         {c \in Range(criteria) : CheckAcceptanceCriterion(c, evidence)})
                    \o GapsOf("Metrica", metrics,
                         {t \in Range(metrics) : MetricStatus(t, evidence).met}),
         score |-> IF total_items > 0
                   THEN (DoneItems(checklist_status, criteria_status, metrics_status)
                            * 10000) \div total_items
                   ELSE 0]

DoDCall ==
    /\ dpc = "call"
    /\ dout' = check_dod(din.dod, din.execution_evidence)
    /\ dpc' = "returned"
    /\ UNCHANGED <<din, evars, svars, vvars, pvars, avars, cvars, hvars>>

\* ----------------------------------------------- ContractValidator code
\* JSON values: each is held under the name of its JSON type.
JStr(x) == [string |-> x]
JInt(n) == [integer |-> n]
JArr(q) == [array |-> q]
JObj(f) == [object |-> f]
TypeOf(instance) == CHOOSE t \in DOMAIN instance : TRUE
ValueOf(instance) == instance[TypeOf(instance)]

\* SCHEMAS; "required" and "enum" are held as sets
SCHEMAS ==
    [analysis_result |->
        [type |-> "object",
         required |-> {"file_path", "summary", "file_type"},
         properties |->
            [file_path |-> [type |-> "string"],
             summary |-> [type |-> "string"],
             file_type |-> [type |-> "string"],
             imports |-> [type |-> "array", items |-> [type |-> "string"]],
             classes |-> [type |-> "array"],
             functions |-> [type |-> "array"],
             complexity |-> [type |-> "string", enum |-> {"low", "medium", "high"}]]],
     exploration_result |->
        [type |-> "object",
         required |-> {"directory", "files", "stats"},
         properties |->
            [directory |-> [type |-> "string"],
             files |-> [type |-> "array"],
             subdirectories |-> [type |-> "array"],
             stats |->
                [type |-> "object",
                 required |-> {"total_files"},
                 properties |->
                    [total_files |-> [type |-> "integer", minimum |-> 0],
                     by_type |-> [type |-> "object"],
                     ignored |-> [type |-> "integer", minimum |-> 0]]]]],
     plan_result |->
        [type |-> "object",
         required |-> {"spec_pack", "execution_steps", "dod"},
         properties |->
            [spec_pack |->
                [type |-> "object",
                 required |-> {"objectives"},
                 properties |->
                    [prd |-> [type |-> "string"],
                     objectives |-> [type |-> "array", minItems |-> 1],
                     assumptions |-> [type |-> "array"],
                     scope |-> [type |-> "object"]]],
             execution_steps |->
                [type |-> "array",
                 minItems |-> 1,
                 items |->
                    [type |-> "object",
                     required |-> {"step_number", "title", "description"},
                     properties |->
                        [step_number |-> [type |-> "integer", minimum |-> 1],
                         title |-> [type |-> "string"],
                         description |-> [type |-> "string"]]]],
             dod |->
                [type |-> "object",
                 required |-> {"acceptance_criteria", "checklist"},
                 properties |->
                    [acceptance_criteria |-> [type |-> "array", minItems |-> 1],
                     checklist |-> [type |-> "array", minItems |-> 1]]]]]]

\* The type names of JSON Schema.
SimpleTypes == {"array", "boolean", "integer", "null", "number", "object", "string"}

\* jsonschema, check_schema: a schema whose "type" is no type name is not
\* a schema
RECURSIVE WellFormed(_)
WellFormed(schema) ==
    /\ "type" \in DOMAIN schema => schema.type \in SimpleTypes
    /\ "properties" \in DOMAIN schema =>
            \A k \in DOMAIN schema.properties : WellFormed(schema.properties[k])
    /\ "items" \in DOMAIN schema => WellFormed(schema.items)

\* jsonschema, keyword "type"
IsOfType(instance, type) ==
    IF type = "number" THEN TypeOf(instance) \in {"integer", "number"} ELSE TypeOf(instance) = type

\* jsonschema, iter_errors: the errors of an instance against a schema,
\* each with the keyword that failed, the path to the offending part of the
\* instance and the path to the keyword in the schema
RECURSIVE SchemaErrors(_, _, _, _)
SchemaErrors(instance, schema, path, schema_path) ==
    LET Has(k) == k \in DOMAIN schema
        Error(keyword) ==
            [message |-> keyword, path |-> path,
             schema_path |-> Append(schema_path, keyword)]
    IN  (IF Has("type")
         THEN IF IsOfType(instance, schema.type) THEN {} ELSE {Error("type")}
         ELSE {})
        \cup
        (IF Has("enum")
         THEN IF TypeOf(instance) = "string"
              THEN IF ValueOf(instance) \in schema.enum THEN {} ELSE {Error("enum")}
              ELSE {Error("enum")}
         ELSE {})
        \cup
        (IF Has("minimum")
         THEN IF TypeOf(instance) = "integer"
              THEN IF ValueOf(instance) >= schema.minimum THEN {} ELSE {Error("minimum")}
              ELSE {}
         ELSE {})
        \cup
        (IF Has("minItems")
         THEN IF TypeOf(instance) = "array"
              THEN IF Len(ValueOf(instance)) >= schema.minItems THEN {} ELSE {Error("minItems")}
              ELSE {}
         ELSE {})
        \cup
        (IF Has("required")
         THEN IF TypeOf(instance) = "object"
              THEN IF schema.required \subseteq DOMAIN ValueOf(instance)
                   THEN {} ELSE {Error("required")}
              ELSE {}
         ELSE {})
        \cup
        (IF Has("properties")
         THEN IF TypeOf(instance) = "object"
              THEN UNION {SchemaErrors(ValueOf(instance)[k], schema.properties[k],
                                Append(path, k),
                                schema_path \o <<"properties", k>>) :
                            k \in DOMAIN schema.properties \cap DOMAIN ValueOf(instance)}
              ELSE {}
         ELSE {})
        \cup
        (IF Has("items")
         THEN IF TypeOf(instance) = "array"
              THEN UNION {SchemaErrors(ValueOf(instance)[i], schema.items,
                                Append(path, i - 1),
                                Append(schema_path, "items")) :
                            i \in 1..Len(ValueOf(instance))}
              ELSE {}
         ELSE {})

\* jsonschema.validate(instance, schema): it raises SchemaError for what is
\* not a schema, raises one of the instance's errors as a ValidationError,
\* or returns
Validate(instance, schema) ==
    IF ~WellFormed(schema) THEN {[raises |-> "SchemaError"]}
    ELSE IF SchemaErrors(instance, schema, <<>>, <<>>) = {} THEN {[raises |-> "nothing"]}
    ELSE {[raises |-> "ValidationError", e |-> e] :
            e \in SchemaErrors(instance, schema, <<>>, <<>>)}

\* Arguments. schema_name and custom_schema are <<>> for None.
AnalysisData ==
    [file_path |-> JStr("a.py"), summary |-> JStr("s"), file_type |-> JStr("python")]
ExplorationData(total_files) ==
    [directory |-> JStr("src"), files |-> JArr(<<>>),
     stats |-> JObj([total_files |-> JInt(total_files)])]
PlanData(step_number) ==
    [spec_pack |-> JObj([objectives |-> JArr(<<JStr("o")>>)]),
     execution_steps |->
        JArr(<<JObj([step_number |-> JInt(step_number), title |-> JStr("t"),
                     description |-> JStr("d")])>>),
     dod |-> JObj([acceptance_criteria |-> JArr(<<JStr("c")>>),
                  checklist |-> JArr(<<JStr("k")>>)])]
ContractData ==
    {JObj(AnalysisData),
     JObj([AnalysisData EXCEPT !.summary = JInt(1)]),
     JObj([k \in {"file_path", "file_type"} |-> AnalysisData[k]]),
     JObj(AnalysisData @@ [complexity |-> JStr("extreme")]),
     JObj(AnalysisData @@ [imports |-> JArr(<<JStr("os"), JInt(1)>>)]),
     JObj(ExplorationData(0)),
     JObj(ExplorationData(-1)),
     JObj(PlanData(1)),
     JObj(PlanData(0)),
     JObj(EmptyDict),
     JStr("texto")}
SchemaNames ==
    {<<>>, <<"analysis_result">>, <<"exploration_result">>, <<"plan_result">>,
     <<"inventory_result">>}
CustomSchemas ==
    {<<>>, <<EmptyDict>>,
     <<[type |-> "object", required |-> {"file_path"}]>>,
     <<[type |-> "objeto"]>>}

\* validate_output, lines 112-120: the schema chosen, <<>> when there is
\* none
SelectSchema(schema_name, custom_schema) ==
    IF custom_schema # <<>> /\ DOMAIN Get(custom_schema, 1, EmptyDict) # {}
    THEN <<custom_schema[1]>>
    ELSE IF schema_name # <<>> /\ Get(schema_name, 1, "") \in DOMAIN SCHEMAS
    THEN <<SCHEMAS[schema_name[1]]>>
    ELSE <<>>

\* validate_output, lines 117-120
SchemaNotFound(schema_name) ==
    [valid |-> FALSE, error |-> <<"Schema no encontrado", schema_name>>]

\* validate_output, lines 122-140, for what validate did
ValidationResult(schema_name, outcome) ==
    IF outcome.raises = "nothing"
    THEN [valid |-> TRUE, message |-> "Validacion exitosa",
          schema_name |-> IF schema_name # <<>> THEN schema_name[1] ELSE "custom"]
    ELSE IF outcome.raises = "ValidationError"
    THEN [valid |-> FALSE, error |-> outcome.e.message, path |-> outcome.e.path,
          schema_path |-> outcome.e.schema_path]
    ELSE [valid |-> FALSE, error |-> "Error de validacion"]

ContractCall ==
    /\ cpc = "call"
    /\ LET schema == SelectSchema(cin.schema_name, cin.custom_schema)
       IN  IF schema = <<>>
           THEN cout' = Ok(SchemaNotFound(cin.schema_name))
           ELSE \E outcome \in Validate(cin.data, schema[1]) :
                    cout' = Ok(ValidationResult(cin.schema_name, outcome))
    /\ cpc' = "returned"
    /\ UNCHANGED <<cin, evars, svars, vvars, pvars, avars, dvars, hvars>>

\* ------------------------------------------- the shared PlanExecutor
\* Calls the callers make on the shared executor, one after the other.
MaxCalls == 2

\* A report holds its execution_log by reference: the identity of a list.
Ref(id) == [ref |-> id]

\* Plans handed to the shared executor: without steps, of one step, and
\* plans with a step whose tool is execute_plan itself, called with a plan
\* of its own.
OrdinaryStep == [tool |-> RegisteredTool, critical |-> FALSE]
InnerPlans ==
    {Plan(<<>>), Plan(<<OrdinaryStep>>),
     Plan(<<[tool |-> RegisteredTool, critical |-> TRUE]>>)}
ReenterStep(inner) ==
    [tool |-> ExecutePlanTool, parameters |-> [plan |-> inner], critical |-> FALSE]
SharedPlans ==
    InnerPlans
        \cup {Plan(<<[critical |-> FALSE], OrdinaryStep>>)}
        \cup {Plan(<<ReenterStep(inner), OrdinaryStep>>) : inner \in InnerPlans}
SharedToolOutcomes ==
    {Ok([success |-> TRUE]), Ok([success |-> FALSE, error |-> "e1"])}

\* The executor's fields, the calls in progress and the reports, as one
\* value.
SharedState ==
    [lists |-> lists, log_ref |-> log_ref, shared_step |-> shared_step,
     frames |-> frames, reports |-> reports]
SetShared(st) ==
    /\ lists' = st.lists
    /\ log_ref' = st.log_ref
    /\ shared_step' = st.shared_step
    /\ frames' = st.frames
    /\ reports' = st.reports
Top(st) == st.frames[Len(st.frames)]
StepOf(frame) == frame.plan.execution_steps[frame.idx]

\* Faulty variant: the log is emptied in place.
ResetLogInPlace(ls, ref) == [lists |-> [ls EXCEPT ![ref] = <<>>], log_ref |-> ref]

\* execute_plan, line 60: self.execution_log = [] binds the field to a new
\* list
ResetLog(ls, ref) == [lists |-> Append(ls, <<>>), log_ref |-> Len(ls) + 1]

\* What a caller keeps of a call: the plan, the report, and the content of
\* the report's execution_log at the return.
Kept(st, p, report) ==
    [plan |-> p, report |-> report,
     log |-> IF "execution_log" \in DOMAIN report
             THEN st.lists[report.execution_log.ref] ELSE <<>>]

RECURSIVE SharedAttempt(_, _), SharedAfterStep(_, _), SharedReturn(_, _)

\* _execute_step, lines 111-160, in the innermost call: the tool behaved
\* as outcome
SharedAttempt(st, outcome) ==
    LET frame == Top(st)
        step == StepOf(frame)
    IN  IF AttemptSucceeds(outcome)
        THEN SharedAfterStep(st, StepSuccess(frame.idx, step.tool, outcome.value,
                                             frame.att))
        ELSE IF MayRetryStep(frame.att)
        THEN [st EXCEPT !.frames[Len(st.frames)].att = @ + 1]
        ELSE SharedAfterStep(st, StepFailure(frame.idx, step.tool,
                                             AttemptError(outcome), frame.att))

\* execute_plan, lines 68-83, in the innermost call: the append goes to
\* the list self.execution_log is bound to now
SharedAfterStep(st, step_result) ==
    LET frame == Top(st)
        steps == frame.plan.execution_steps
        log == Append(st.lists[st.log_ref], step_result)
        cur == IF step_result.success THEN frame.idx ELSE st.shared_step
        st2 == [st EXCEPT !.lists[st.log_ref] = log, !.shared_step = cur]
    IN  IF ~step_result.success /\ IsCritical(steps[frame.idx])
        THEN SharedReturn(st2,
                [BuildFailureReport(log, cur, frame.idx, Len(steps))
                    EXCEPT !.execution_log = Ref(st.log_ref)])
        ELSE IF frame.idx = Len(steps)
        THEN SharedReturn(st2,
                [BuildSuccessReport(log, Len(steps))
                    EXCEPT !.execution_log = Ref(st.log_ref)])
        ELSE [st2 EXCEPT !.frames[Len(st.frames)] =
                            [@ EXCEPT !.idx = @ + 1, !.att = 0]]

\* The innermost call returns report: to the caller, or as the result of
\* the tool to the call that invoked it
SharedReturn(st, report) ==
    LET frame == Top(st)
        popped == [st EXCEPT !.frames = SubSeq(@, 1, Len(@) - 1)]
    IN  IF Len(popped.frames) = 0
        THEN [popped EXCEPT !.reports = Append(@, Kept(st, frame.plan, report))]
        ELSE SharedAttempt(popped, Ok(report))

\* execute_plan, lines 50-61, entered with plan p by a caller or by a step
SharedEnter(st, p) ==
    IF ~HasSteps(p)
    THEN IF Len(st.frames) = 0
         THEN [st EXCEPT !.reports = Append(@, Kept(st, p, NoStepsReport))]
         ELSE SharedAttempt(st, Ok(NoStepsReport))
    ELSE [st EXCEPT !.lists = ResetLog(st.lists, st.log_ref).lists,
                    !.log_ref = ResetLog(st.lists, st.log_ref).log_ref,
                    !.shared_step = 0,
                    !.frames = Append(@, [plan |-> p, idx |-> 1, att |-> 0])]

\* tools.execute_plan(p) called by a caller
SharedCall ==
    /\ Len(frames) = 0
    /\ calls < MaxCalls
    /\ calls' = calls + 1
    /\ \E p \in SharedPlans : SetShared(SharedEnter(SharedState, p))
    /\ UNCHANGED <<evars, svars, vvars, pvars, avars, dvars, cvars>>

\* _execute_step for a step without a usable tool
SharedStepWithoutTool ==
    /\ Len(frames) > 0
    /\ ToolMissing(StepOf(Top(SharedState)))
    /\ SetShared(SharedAfterStep(SharedState,
            ToolLookupFailure(StepOf(Top(SharedState)), Top(SharedState).idx)))
    /\ UNCHANGED <<calls, evars, svars, vvars, pvars, avars, dvars, cvars>>

\* one pass of the retry loop on a tool other than execute_plan
SharedToolInvoke ==
    /\ Len(frames) > 0
    /\ ~ToolMissing(StepOf(Top(SharedState)))
    /\ StepOf(Top(SharedState)).tool # ExecutePlanTool
    /\ \E outcome \in SharedToolOutcomes :
            SetShared(SharedAttempt(SharedState, outcome))
    /\ UNCHANGED <<calls, evars, svars, vvars, pvars, avars, dvars, cvars>>

\* one pass of the retry loop on the tool execute_plan: tool_func(**params)
\* enters execute_plan on the same executor
SharedReenter ==
    /\ Len(frames) > 0
    /\ ~ToolMissing(StepOf(Top(SharedState)))
    /\ StepOf(Top(SharedState)).tool = ExecutePlanTool
    /\ SetShared(SharedEnter(SharedState, StepOf(Top(SharedState)).parameters.plan))
    /\ UNCHANGED <<calls, evars, svars, vvars, pvars, avars, dvars, cvars>>

\* ------------------------------------------------------ specifications
ExecInit ==
    /\ execution_log = <<>>
    /\ current_step = 0
    /\ epc = "idle"
    /\ eplan = EmptyDict
    /\ idx = 0
    /\ tattempt = 0
    /\ eresult = EmptyDict
    /\ invoked = <<>>
    /\ lastOutcome = NoOutcome

SupInit ==
    /\ spc = "idle"
    /\ plan = EmptyDict
    /\ attempt = 0
    /\ execution_history = <<>>
    /\ sresult = EmptyDict
    /\ execCalls = 0
    /\ recs = <<>>
    /\ offered = <<>>
    /\ caller_plan = EmptyDict
    /\ judged = EmptyDict

ValidateIdle ==
    /\ vpc = "idle"
    /\ vin = EmptyDict
    /\ vout = EmptyDict

ResolveIdle ==
    /\ rpc = "idle"
    /\ params = EmptyDict
    /\ context = EmptyDict
    /\ resolved = EmptyDict

ArchitectIdle ==
    /\ apc = "idle"
    /\ ain = EmptyDict
    /\ aout = EmptyDict
    /\ avalidation = EmptyDict

DoDIdle ==
    /\ dpc = "idle"
    /\ din = EmptyDict
    /\ dout = EmptyDict

\* A supervised run: supervise_plan_execution over the executor.
ContractIdle ==
    /\ cpc = "idle"
    /\ cin = EmptyDict
    /\ cout = EmptyDict

\* PlanExecutor.__init__ for the shared executor: no call made yet
SharedInit ==
    /\ lists = <<<<>>>>
    /\ log_ref = 1
    /\ shared_step = 0
    /\ frames = <<>>
    /\ reports = <<>>
    /\ calls = 0

OthersIdle == ResolveIdle /\ ArchitectIdle /\ DoDIdle /\ ContractIdle /\ SharedInit
Init == ExecInit /\ SupInit /\ ValidateIdle /\ OthersIdle
Next == SuperviseCall \/ StepWithoutTool \/ ToolInvoke \/ SuperviseValidate
Spec == Init /\ [][Next]_vars

\* execute_plan called directly.
ExecNext == CallExecutePlan \/ StepWithoutTool \/ ToolInvoke
SpecExec == Init /\ [][ExecNext]_vars

\* validate_execution called directly, over every answer of the service.
InitValidate ==
    /\ ExecInit
    /\ SupInit
    /\ vpc = "call"
    /\ vin \in ValidateInputs
    /\ vout = EmptyDict
    /\ OthersIdle
SpecValidate == InitValidate /\ [][ValidateCall]_vars

\* _resolve_context_vars called directly, over every params and context.
InitResolve ==
    /\ ExecInit
    /\ SupInit
    /\ ValidateIdle
    /\ ArchitectIdle
    /\ DoDIdle
    /\ ContractIdle
    /\ SharedInit
    /\ rpc = "call"
    /\ params \in ParamDicts
    /\ context \in Contexts
    /\ resolved = EmptyDict
SpecResolve == InitResolve /\ [][ResolveCall]_vars

\* check_dod called directly, over every DoD and evidence.
InitDoD ==
    /\ ExecInit
    /\ SupInit
    /\ ValidateIdle
    /\ ResolveIdle
    /\ ArchitectIdle
    /\ ContractIdle
    /\ SharedInit
    /\ dpc = "call"
    /\ din \in [dod : DoDs, execution_evidence : Evidences]
    /\ dout = EmptyDict
SpecDoD == InitDoD /\ [][DoDCall]_vars

\* validate_output called directly.
InitContract ==
    /\ ExecInit
    /\ SupInit
    /\ ValidateIdle
    /\ ResolveIdle
    /\ ArchitectIdle
    /\ DoDIdle
    /\ SharedInit
    /\ cpc = "call"
    /\ cin \in [data : ContractData, schema_name : SchemaNames,
                 custom_schema : CustomSchemas]
    /\ cout = EmptyDict
SpecContract == InitContract /\ [][ContractCall]_vars

\* The Architect makes a plan and the executor runs it.
ArchitectNext ==
    \/ ArchitectCall
    \/ ExecuteArchitectPlan
    \/ StepWithoutTool
    \/ ToolInvoke
    \/ ValidatePlanExecution
SpecArchitect == Init /\ [][ArchitectNext]_vars

\* Callers call the shared executor one after the other; a step may call
\* it again.
SharedNext ==
    \/ SharedCall
    \/ SharedStepWithoutTool
    \/ SharedToolInvoke
    \/ SharedReenter
SpecShared == Init /\ [][SharedNext]_vars

\* ------------------------------------------------------------- claims
Last(q) == q[Len(q)]
Retry == <<PyStr("retry")>>
Approve == <<PyStr("approve")>>
Returned == spc = "done"
Stopped == spc \in {"done", "raised"}

\* The work a run has left: the attempts not yet started, then the tool
\* invocations the execute_plan call in progress can still make.
StepsLeft ==
    IF epc = "step"
    THEN (Len(eplan.execution_steps) - idx + 1) * max_retries - tattempt
    ELSE 0
Measure ==
    (max_plan_retries + 1 - execCalls) * (MaxSteps * max_retries + 2)
        + StepsLeft + (IF spc = "executing" THEN 1 ELSE 0)
C1_Bounded ==
    /\ Measure >= 0
    /\ ~Stopped => ENABLED Next
    /\ execCalls <= max_plan_retries + 1
    /\ Stopped => execCalls >= 1
    /\ (Returned /\ \A i \in 1..Len(recs) : recs[i] = Retry) =>
            /\ execCalls = max_plan_retries + 1
            /\ sresult.final_success = FALSE

\* C1: a supervised run stops (every step takes from a bounded measure, and
\* only a run that returned or raised has no step left), after at least one
\* and at most max_plan_retries + 1 calls of execute_plan; a run in which every
\* validation recommends retry makes exactly max_plan_retries + 1 calls
\* and returns final_success = false.
C1_BoundedRetries == []C1_Bounded /\ [][Measure' < Measure]_vars

C1_Witness ==
    /\ Returned
    /\ Len(recs) = max_plan_retries + 1
    /\ \A i \in 1..Len(recs) : recs[i] = Retry
    /\ offered = <<>>

JudgeFailureMessage(resp) ==
    IF resp.raises THEN resp.msg ELSE "Expecting value"
JudgeFailed(resp) == IF resp.raises THEN TRUE ELSE ~resp.value.json

\* C2: when the completion service raises, or answers with content that is
\* not JSON, validate_execution returns validation_passed = false and
\* recommendation "escalate", with the exception message in reasoning.
C2_FailClosed ==
    (vpc = "returned" /\ JsonSerializable(vin.execution_result) /\ JudgeFailed(vin.resp)) =>
        /\ ~vout.raises
        /\ vout.value.validation_passed = FALSE
        /\ vout.value.recommendation = PyStr("escalate")
        /\ vout.value.reasoning = <<"Error al validar: ", JudgeFailureMessage(vin.resp)>>

C2_Witness ==
    /\ vpc = "returned"
    /\ JsonSerializable(vin.execution_result)
    /\ ~vin.resp.raises
    /\ ~vin.resp.value.json
    /\ ~vout.raises

\* C3: the returned final_success is true exactly when the last validation
\* recommended approve; an approval is the last validation of the run, no
\* execute_plan call follows it, and attempts is its 1-based number.
C3_ApproveIsTerminal ==
    /\ Returned => (sresult.final_success <=> Last(recs) = Approve)
    /\ \A i \in 1..Len(recs) :
          recs[i] = Approve =>
            /\ i = Len(recs)
            /\ Returned
            /\ execCalls = i
            /\ sresult.attempts = i

C3_Witness ==
    /\ Returned
    /\ sresult.final_success
    /\ sresult.attempts = 2
    /\ recs = <<Retry, Approve>>

EscalatesAt(i) ==
    IF recs[i] = Approve THEN FALSE
    ELSE IF recs[i] = Retry THEN i - 1 = max_plan_retries
    ELSE TRUE
FailureMessageOf(validation, execution) ==
    [header |-> "No se pudo completar el plan solicitado.",
     problems |->
        IF "issues_found" \in DOMAIN validation
        THEN validation.issues_found
        ELSE <<"No se especificaron problemas concretos">>,
     completed |-> execution.steps_completed,
     total |-> execution.steps_total,
     rate |-> IF "completion_rate" \in DOMAIN execution
              THEN Format1f(execution.completion_rate) ELSE 0,
     analysis |-> IF "reasoning" \in DOMAIN validation
                  THEN validation.reasoning ELSE <<>>]

\* C4: a validation that recommends neither approve nor retry (escalate,
\* another word, no recommendation), or retry on attempt max_plan_retries,
\* ends the run: final_success = false, no further execute_plan call, and
\* the user message is made of that validation's issues and reasoning and of
\* the last execution's statistics.
C4_Escalation ==
    \A i \in 1..Len(recs) :
        EscalatesAt(i) =>
            /\ i = Len(recs)
            /\ Returned
            /\ execCalls = i
            /\ sresult.final_success = FALSE
            /\ sresult.attempts = i
            /\ sresult.user_message =
                 FailureMessageOf(sresult.validation_result, Last(execution_history))

C4_Witness ==
    /\ Returned
    /\ Len(recs) = max_plan_retries + 1
    /\ Last(recs) = Retry
    /\ sresult.user_message.problems = <<"i1", "i2">>
    /\ sresult.user_message.analysis = <<"r1">>
    /\ sresult.user_message.completed = 1

Carries(o) == IF o = <<>> THEN FALSE ELSE Truthy(o[1])
C5_Step ==
    (/\ spc = "executing"
     /\ epc = "returned"
     /\ Len(recs') = Len(recs) + 1
     /\ Last(recs') = Retry
     /\ attempt < max_plan_retries) =>
        /\ eplan' = (IF Carries(offered') THEN offered'[1] ELSE eplan)
        /\ execCalls' = execCalls + 1
        /\ attempt' = attempt + 1

C6_PassedOnly ==
    (Returned /\ sresult.final_success) =>
        Get(sresult.validation_result, "validation_passed", FALSE)

\* C7: supervise_plan_execution never raises.
C7_NeverRaises == spc # "raised"

EntryOf(d, k) == IF k \in DOMAIN d THEN <<d[k]>> ELSE <<>>

\* C8: the returned value has the five fields; attempts is the length of
\* execution_history and the number of execute_plan calls made, and
\* validation_result is the validation of the last attempt.
C8_ResultShape ==
    Returned =>
        /\ DOMAIN sresult = {"final_success", "attempts", "execution_history",
                             "validation_result", "user_message"}
        /\ sresult.attempts = Len(sresult.execution_history)
        /\ sresult.attempts = execCalls
        /\ sresult.execution_history = execution_history
        /\ Last(sresult.execution_history) = eresult
        /\ Len(recs) = sresult.attempts
        /\ Last(recs) = EntryOf(sresult.validation_result, "recommendation")
        /\ offered = EntryOf(sresult.validation_result, "retry_plan")

C8_Witness ==
    /\ Returned
    /\ sresult.final_success
    /\ sresult.attempts = max_plan_retries + 1
    /\ Len(sresult.execution_history) = max_plan_retries + 1

MarkedCritical(step) == IF "critical" \in DOMAIN step THEN step.critical ELSE FALSE

\* C9: once a step marked critical has failed, execute_plan has returned
\* success = false with the log of the steps up to and including that step,
\* no later step's tool was invoked, and steps_completed is 0 when the failed
\* step is the first.
C9_CriticalShortCircuit ==
    epc # "idle" =>
        \A i \in 1..Len(execution_log) :
            (~execution_log[i].success /\ MarkedCritical(eplan.execution_steps[i])) =>
                /\ i = Len(execution_log)
                /\ epc = "returned"
                /\ eresult.success = FALSE
                /\ eresult.execution_log = execution_log
                /\ \A j \in 1..i : execution_log[j].step_num = j
                /\ \A j \in (i + 1)..Len(eplan.execution_steps) : invoked[j] = 0
                /\ (i = 1 => eresult.steps_completed = 0)

C9_Witness ==
    /\ epc = "returned"
    /\ "failed_at_step" \in DOMAIN eresult
    /\ eresult.failed_at_step = 2
    /\ eresult.steps_completed = 1
    /\ Len(eplan.execution_steps) = 3
    /\ invoked = <<1, max_retries, 0>>

HasRegisteredTool(step) == IF "tool" \in DOMAIN step THEN step.tool \in tools ELSE FALSE
Fails(o) ==
    IF o.raises THEN TRUE
    ELSE IF IsDict(o.value) /\ "success" \in DOMAIN o.value THEN ~o.value.success
    ELSE FALSE
ErrorOf(o) ==
    IF o.raises THEN o.msg
    ELSE IF "error" \in DOMAIN o.value THEN o.value.error
    ELSE "Error desconocido"
C10_Budget ==
    epc # "idle" =>
        /\ \A i \in 1..Len(invoked) : invoked[i] <= max_retries
        /\ \A i \in 1..Len(execution_log) :
              HasRegisteredTool(eplan.execution_steps[i]) =>
                 /\ invoked[i] >= 1
                 /\ ~execution_log[i].success => invoked[i] = max_retries
C10_Invocation ==
    /\ \A i \in 1..Len(execution_log) : invoked'[i] = invoked[i]
    /\ (epc = "step" /\ invoked' # invoked) =>
          IF ~Fails(lastOutcome')
          THEN /\ Len(execution_log') = Len(execution_log) + 1
               /\ Last(execution_log').success
          ELSE IF invoked'[idx] < max_retries
          THEN execution_log' = execution_log
          ELSE /\ Len(execution_log') = Len(execution_log) + 1
               /\ ~Last(execution_log').success
               /\ Last(execution_log').error = ErrorOf(lastOutcome')

\* C10: the tool of a step is invoked at least once and at most max_retries
\* times; an invocation that succeeds ends the step; a tool that fails every
\* time is invoked exactly max_retries times and the step is recorded as
\* failed with the error of the last invocation.
C10_RetryBudget == []C10_Budget /\ [][C10_Invocation]_vars

C10_Witness ==
    /\ epc = "returned"
    /\ Len(execution_log) = 2
    /\ ~execution_log[2].success
    /\ invoked[2] = max_retries
    /\ lastOutcome = Raise("e2")
    /\ execution_log[2].error = "e2"

\* ------------------------------------------------ claims on execute_plan
StepsOf(p) == IF "execution_steps" \in DOMAIN p THEN p.execution_steps ELSE <<>>
Succeeded(log) == Cardinality({i \in 1..Len(log) : log[i].success})
Abs(n) == IF n < 0 THEN -n ELSE n

\* C11: every StepResult of a step whose tool was invoked has a field
\* attempts, the number of invocations used, between 1 and max_retries.
C11_Attempts ==
    epc # "idle" =>
        \A i \in 1..Len(execution_log) :
            invoked[i] >= 1 =>
                IF "attempts" \in DOMAIN execution_log[i]
                THEN /\ execution_log[i].attempts = invoked[i]
                     /\ execution_log[i].attempts \in 1..max_retries
                ELSE FALSE

\* C12: a plan whose execution_steps is empty or absent returns at once
\* success = false, steps_completed = 0, steps_total = 0 and an error text,
\* and no tool is invoked.
C12_NoSteps ==
    (epc # "idle" /\ StepsOf(eplan) = <<>>) =>
        /\ epc = "returned"
        /\ DOMAIN eresult = {"success", "error", "steps_completed", "steps_total"}
        /\ eresult.success = FALSE
        /\ eresult.steps_completed = 0
        /\ eresult.steps_total = 0
        /\ lastOutcome = NoOutcome
        /\ execution_log = <<>>

C12_Witness ==
    /\ epc = "returned"
    /\ "execution_steps" \notin DOMAIN eplan
    /\ eresult.success = FALSE
    /\ eresult.steps_total = 0

\* C13: a step that names no tool, or a tool the registry does not have,
\* is recorded as failed without any invocation and without attempts; when
\* it is not critical the next step is executed, and after the last step
\* the plan returns its success report.
C13_MissingTool ==
    epc # "idle" =>
        /\ epc \in {"step", "returned"}
        /\ \A i \in 1..Len(execution_log) :
              ~HasRegisteredTool(StepsOf(eplan)[i]) =>
                 /\ ~execution_log[i].success
                 /\ execution_log[i].step_num = i
                 /\ invoked[i] = 0
                 /\ DOMAIN execution_log[i] \cap {"attempt", "attempts", "result"} = {}
                 /\ (i = Len(execution_log) /\ ~MarkedCritical(StepsOf(eplan)[i])) =>
                        IF i < Len(StepsOf(eplan))
                        THEN epc = "step" /\ idx = i + 1
                        ELSE epc = "returned" /\ eresult.success

C13_Witness ==
    /\ epc = "returned"
    /\ Len(execution_log) = 2
    /\ "tool" \in DOMAIN eplan.execution_steps[1]
    /\ eplan.execution_steps[1].tool = UnknownTool
    /\ ~execution_log[1].success
    /\ execution_log[2].success
    /\ invoked = <<0, 1>>

\* C14: execute_plan returns success = true exactly when the plan has a step
\* and no critical step failed; a plan whose steps all fail, none critical,
\* returns success = true with completion_rate 0; a success report has one
\* StepResult per plan step, in order.
C14_SuccessIff ==
    epc = "returned" =>
        /\ eresult.success <=>
              /\ Len(StepsOf(eplan)) >= 1
              /\ \A i \in 1..Len(execution_log) :
                    execution_log[i].success \/ ~MarkedCritical(StepsOf(eplan)[i])
        /\ eresult.success =>
              /\ Len(eresult.execution_log) = Len(StepsOf(eplan))
              /\ \A i \in 1..Len(eresult.execution_log) :
                    eresult.execution_log[i].step_num = i
              /\ Succeeded(eresult.execution_log) = 0 => eresult.completion_rate = 0

C14_Witness ==
    /\ epc = "returned"
    /\ eresult.success
    /\ Len(eresult.execution_log) = 2
    /\ Succeeded(eresult.execution_log) = 0
    /\ invoked = <<max_retries, 0>>
    /\ eresult.completion_rate = 0

\* C15: in a success report over N steps of which K succeeded, steps_total
\* is N and completion_rate is K / N * 100 rounded to two decimals (held in
\* hundredths: the nearest integer to 10000 * K / N); when every step
\* succeeded steps_completed = steps_total and completion_rate is 100.
C15_CompletionRate ==
    (epc = "returned" /\ eresult.success) =>
        LET N == Len(StepsOf(eplan))
            K == Succeeded(eresult.execution_log)
            r == eresult.completion_rate
        IN  /\ N >= 1
            /\ eresult.steps_total = N
            /\ 2 * Abs(r * N - 10000 * K) <= N
            /\ K = N => /\ eresult.steps_completed = eresult.steps_total
                        /\ r = 10000

C15_Witness ==
    /\ epc = "returned"
    /\ eresult.success
    /\ eresult.steps_total = 3
    /\ Succeeded(eresult.execution_log) = 2
    /\ eresult.completion_rate = 6667

\* C16: in every report that carries an execution_log, steps_completed is
\* the number of StepResults of that log with success = true.
C16_CompletedIsCount ==
    (epc = "returned" /\ "execution_log" \in DOMAIN eresult) =>
        eresult.steps_completed = Succeeded(eresult.execution_log)

C17_Attempt ==
    (epc = "step" /\ invoked' # invoked) =>
        /\ epc' \in {"step", "returned"}
        /\ IF Fails(lastOutcome')
           THEN \/ execution_log' = execution_log /\ epc' = "step" /\ idx' = idx
                \/ /\ Len(execution_log') = Len(execution_log) + 1
                   /\ ~Last(execution_log').success
           ELSE /\ Len(execution_log') = Len(execution_log) + 1
                /\ Last(execution_log').success
                /\ Last(execution_log').result = lastOutcome'.value
                /\ epc' = "returned" \/ idx' = idx + 1

\* C17: a tool attempt is a failure exactly when the tool raises or returns
\* a dict whose success entry is false; any other returned value (not a
\* dict, a dict without success, a dict with only an error entry) makes the
\* step succeed on that attempt, with that value as result and no further
\* invocation for the step; a raising tool never makes execute_plan raise.
C17_SuccessPolicy == [][C17_Attempt]_vars

C17_Witness ==
    /\ epc = "returned"
    /\ Len(execution_log) = 2
    /\ execution_log[1].success
    /\ execution_log[1].result = [error |-> "e1"]
    /\ invoked = <<1, 2>>
    /\ execution_log[2].success
    /\ execution_log[2].result = PyStr("text")

\* --------------------------------------- claims on _resolve_context_vars
\* The names n for which the string is exactly "${" n "}".
NamesIn(str) == {n \in Strings : str = <<"$", "{">> \o n \o <<"}">>}
Substituted(value, ctx) ==
    IF ~IsStr(value) THEN value
    ELSE IF NamesIn(value.s) = {} THEN value
    ELSE LET name == CHOOSE n \in NamesIn(value.s) : TRUE
         IN  IF name \in DOMAIN ctx THEN ctx[name] ELSE value
C18_Resolved ==
    rpc = "returned" =>
        /\ DOMAIN resolved = DOMAIN params
        /\ \A key \in DOMAIN params : resolved[key] = Substituted(params[key], context)

\* C18: the mapping _resolve_context_vars returns has the keys of params;
\* under each key it holds context[name] when the parameter is a string of
\* the exact form ${name} and name is a key of context, and the parameter
\* unchanged otherwise; params itself is left as it was.
C18_Resolution == []C18_Resolved /\ [][params' = params /\ context' = context]_vars

C18_Witness ==
    /\ rpc = "returned"
    /\ params = ("dir" :> PyStr(<<"$", "{", "a", "}">>)) @@ ("depth" :> PyInt(1))
    /\ <<"a">> \in DOMAIN context
    /\ context[<<"a">>] = PyInt(7)
    /\ resolved = ("dir" :> PyInt(7)) @@ ("depth" :> PyInt(1))

\* ------------------------------------------------ claims on the Architect
ArchitectFailed(resp) == IF resp.raises THEN TRUE ELSE ~resp.value.json
WithoutTimestamp(p) ==
    [p EXCEPT !.metadata = [k \in DOMAIN p.metadata \ {"generated_at"} |-> p.metadata[k]]]

\* C19: generate_analysis_plan never raises; when the completion call raises
\* or its content is not JSON it returns the fallback plan: two fixed steps,
\* a DoD of acceptance criteria, checklist and metrics, and, the timestamp
\* aside, a content that depends on repository_path and user_requirements
\* only.
C19_Fallback ==
    apc # "idle" =>
        /\ apc = "returned"
        /\ ~aout.raises
        /\ ArchitectFailed(ain.resp) =>
              /\ Len(aout.value.execution_steps) = 2
              /\ aout.value.execution_steps[1].title = "Explorar estructura completa"
              /\ aout.value.execution_steps[2].title = "Analizar archivos principales"
              /\ DOMAIN aout.value.dod = {"acceptance_criteria", "checklist", "metrics"}
              /\ aout.value.metadata.generated_at = ain.now
              /\ WithoutTimestamp(aout.value) =
                    WithoutTimestamp(GetFallbackPlan(ain.repository_path,
                                                     ain.user_requirements, 0))

C19_Witness ==
    /\ apc = "returned"
    /\ ~ain.resp.raises
    /\ ~ain.resp.value.json
    /\ ain.scope = "quick"
    /\ aout.value.metadata.scope = "fallback"
    /\ aout.value.metadata.repository_path = "repoB"

IsFallback(p) == p.metadata.architect_model = "fallback"
Increasing(steps) ==
    \A i \in 1..Len(steps) : \A j \in 1..Len(steps) :
        i < j => steps[i].step_number < steps[j].step_number

\* C20: the fallback plan has steps with increasing step numbers, each
\* naming a registered tool, and execute_plan on it invokes a tool for
\* every step.
C20_FallbackExecutable ==
    (apc = "returned" /\ epc = "returned" /\ IsFallback(aout.value)) =>
            /\ Len(eplan.execution_steps) >= 1
            /\ Increasing(eplan.execution_steps)
            /\ \A i \in 1..Len(eplan.execution_steps) :
                  /\ HasRegisteredTool(eplan.execution_steps[i])
                  /\ invoked[i] >= 1

StepsCompleted == Cardinality({i \in 1..Len(execution_log) : execution_log[i].success})

\* C27: validate_plan_execution reports plan_followed = false with a gap
\* when fewer steps were completed than the plan has, also for an executor
\* log that holds failed steps, and plan_followed = true without gaps
\* otherwise.
C27_IncompleteFlagged ==
    DOMAIN avalidation # {} =>
        IF StepsCompleted < Len(Get(aout.value, "execution_steps", <<>>))
        THEN ~avalidation.plan_followed /\ avalidation.gaps # <<>>
        ELSE avalidation.plan_followed /\ avalidation.gaps = <<>>

\* --------------------------------------------- claims on the supervisor
\* C24: every validate_execution call of a supervised run receives the plan
\* the caller passed to supervise_plan_execution, also after a retry plan
\* has replaced the plan being executed, and the execution result of the
\* attempt just made.
C24_OriginalPlan ==
    Len(recs) >= 1 =>
        /\ judged.original_plan = caller_plan
        /\ judged.execution_result = Last(execution_history)

\* C28: a run that returns final_success = true has a last execution with
\* success = true.
C28_ApprovedSucceeded ==
    (Returned /\ sresult.final_success) =>
        Last(sresult.execution_history).success

\* ------------------------------------------------- claims on check_dod
Unmet(q, satisfied) == {i \in 1..Len(q) : q[i] \notin satisfied}
\* the positions of the DoD's items that the heuristics leave unmet
UnmetChecklist ==
    Unmet(Get(din.dod, "checklist", <<>>),
          {i \in ChecklistItems : CheckChecklistItem(i, din.execution_evidence)})
UnmetCriteria ==
    Unmet(Get(din.dod, "acceptance_criteria", <<>>),
          {c \in CriteriaItems : CheckAcceptanceCriterion(c, din.execution_evidence)})
UnmetMetrics ==
    {i \in 1..Len(Get(din.dod, "metrics", <<>>)) :
        ~MetricStatus(din.dod.metrics[i], din.execution_evidence).met}
ItemCount ==
    Len(Get(din.dod, "checklist", <<>>)) + Len(Get(din.dod, "acceptance_criteria", <<>>))
        + Len(Get(din.dod, "metrics", <<>>))
UnmetCount ==
    Cardinality(UnmetChecklist) + Cardinality(UnmetCriteria) + Cardinality(UnmetMetrics)

\* C21: the score of a non-empty DoD is the share of its items that are
\* not reported as unmet: gaps has one entry for each unmet item, the score
\* is 100 exactly when gaps is empty, and a DoD with a criterion reported
\* "Not Met" scores below 100.
C21_ScoreCountsSatisfied ==
    (dpc = "returned" /\ ItemCount > 0) =>
        /\ Len(dout.gaps) = UnmetCount
        /\ dout.score = ((ItemCount - UnmetCount) * 10000) \div ItemCount
        /\ (dout.score = 10000) <=> (dout.gaps = <<>>)
        /\ (\E c \in DOMAIN dout.criteria_status :
                dout.criteria_status[c] = NotMetText) => dout.score < 10000

\* C22: the score lies between 0 and 100, also for a DoD that repeats an
\* item, and the score of a DoD without items is 0.
C22_ScoreBounds ==
    dpc = "returned" =>
        /\ dout.score >= 0
        /\ dout.score <= 10000
        /\ (ItemCount = 0 => dout.score = 0)

\* a DoD that repeats a checklist item, has a metric, and reaches 100
C22_Witness ==
    /\ dpc = "returned"
    /\ Len(Get(din.dod, "checklist", <<>>)) = 2
    /\ Cardinality(DOMAIN dout.checklist_status) = 1
    /\ Len(Get(din.dod, "metrics", <<>>)) >= 1
    /\ Get(din.dod, "acceptance_criteria", <<>>) = <<>>
    /\ dout.score > 0

\* C30: dod_satisfied is true exactly when gaps is empty.
C30_SatisfiedIffNoGaps ==
    dpc = "returned" => (dout.dod_satisfied <=> (dout.gaps = <<>>))

\* ------------------------------------------- claims on validate_output
\* the schema the caller selected: custom_schema when given, otherwise the
\* predefined schema of that name, <<>> when there is none
SelectedByCaller ==
    IF cin.custom_schema # <<>> THEN cin.custom_schema
    ELSE IF cin.schema_name # <<>> /\ Get(cin.schema_name, 1, "") \in DOMAIN SCHEMAS
    THEN <<SCHEMAS[cin.schema_name[1]]>>
    ELSE <<>>
Conforms ==
    IF SelectedByCaller = <<>> THEN FALSE
    ELSE /\ WellFormed(SelectedByCaller[1])
         /\ SchemaErrors(cin.data, SelectedByCaller[1], <<>>, <<>>) = {}

\* C23: validate_output never raises; valid is true exactly when data
\* conforms to the selected schema; every result with valid = false carries
\* an error and a path.
C23_ValidateOutput ==
    cpc = "returned" =>
        /\ ~cout.raises
        /\ cout.value.valid <=> Conforms
        /\ ~cout.value.valid =>
                /\ "error" \in DOMAIN cout.value
                /\ "path" \in DOMAIN cout.value

\* ------------------------------------- claims on the shared executor
NoCallInProgress == Len(frames) = 0

\* C25: after an execute_plan call returns, execution_log and current_step
\* hold what that call alone left: for a plan without steps an empty log
\* and 0, otherwise the log of the returned report.
C25_ResetEveryCall ==
    (NoCallInProgress /\ Len(reports) >= 1) =>
        IF HasSteps(Last(reports).plan)
        THEN Last(reports).report.execution_log = Ref(log_ref)
        ELSE lists[log_ref] = <<>> /\ shared_step = 0

WithLog == {i \in 1..Len(reports) : "execution_log" \in DOMAIN reports[i].report}

\* C26: a report a caller got is not changed by the calls made later: the
\* list it holds as execution_log keeps the content it had at the return,
\* and the reports of two calls hold different lists.
C26_ReportsKeepLog ==
    /\ \A i \in WithLog :
            lists[reports[i].report.execution_log.ref] = reports[i].log
    /\ \A i \in WithLog : \A j \in WithLog :
            i # j => reports[i].report.execution_log.ref
                        # reports[j].report.execution_log.ref

\* a second call with steps was made after a report with a log came back,
\* and the executor is in the middle of it
C26_Witness ==
    /\ 1 \in WithLog
    /\ Len(reports[1].log) >= 1
    /\ Len(frames) >= 1
    /\ Len(lists[log_ref]) >= 1

\* C29: the report of a call holds one StepResult for each step of its plan
\* that was attempted, in step order, and counts the steps of that plan
\* only, also when a step called execute_plan on the same executor.
C29_OuterReport ==
    \A i \in WithLog :
        /\ Len(reports[i].log) <= Len(reports[i].plan.execution_steps)
        /\ \A k \in 1..Len(reports[i].log) : reports[i].log[k].step_num = k
        /\ reports[i].report.steps_completed <= reports[i].report.steps_total
====
